---- MODULE Spec2Model ----
(***************************************************************************)
(* Fragnauts: avatars on a small sphere (Player, Planet.ts), projectiles   *)
(* (Projectile.ts) and the replication layer over the shared store         *)
(* (MultiplayerManager).                                                   *)
(*                                                                         *)
(* Numbers.  The program computes with IEEE doubles.  The model computes   *)
(* with integers in fixed point: lengths in 1/1000 of a world unit, unit   *)
(* vectors with length 1000, angles in 1/1000 rad, time in milliseconds,   *)
(* velocities in 1/1000 unit per second, fuel in 1/100 of a fuel unit.     *)
(* Every division rounds to nearest, so "equal up to rounding" in the      *)
(* program is "equal up to a few units of the last place" here.            *)
(***************************************************************************)
EXTENDS Integers, Sequences, FiniteSets, TLC

\* Fixed-point scale of lengths, unit vectors and angles.
S == 10 ^ 3

\* Fixed-point scale of fuel.
FS == 10 ^ 2

----------------------------------------------------------------------------
(* Arithmetic of the number type                                           *)

Abs(a) == IF a < 0 THEN -a ELSE a

Min(a, b) == IF a < b THEN a ELSE b

Max(a, b) == IF a > b THEN a ELSE b

\* a / b rounded to the nearest integer (b > 0).
RDiv(a, b) == (2 * a + b) \div (2 * b)

RECURSIVE SqrtIter(_, _)
SqrtIter(n, x) ==
    LET y == (x + n \div x) \div 2
    IN  IF y >= x THEN x ELSE SqrtIter(n, y)

\* Math.sqrt, rounded to the nearest integer.
Sqrt(n) ==
    IF n <= 0 THEN 0
    ELSE LET r == SqrtIter(n, n)
         IN  IF n - r * r > r THEN r + 1 ELSE r

\* Math.sin and Math.cos of an angle a in 1/1000 rad, scaled by S (Taylor
\* series to the ninth power: exact to the last place for |a| <= 2 rad).
SinTerm(t, a, k) == RDiv(RDiv(t * a, S) * a, k * S)

Sin(a) ==
    LET t3 == SinTerm(a, a, 6)
        t5 == SinTerm(t3, a, 20)
        t7 == SinTerm(t5, a, 42)
        t9 == SinTerm(t7, a, 72)
    IN  a - t3 + t5 - t7 + t9

Cos(a) ==
    LET t2 == SinTerm(S, a, 2)
        t4 == SinTerm(t2, a, 12)
        t6 == SinTerm(t4, a, 30)
        t8 == SinTerm(t6, a, 56)
    IN  S - t2 + t4 - t6 + t8

----------------------------------------------------------------------------
(* Vector3 and Matrix of @babylonjs/core, as Planet.ts uses them           *)

Zero == <<0, 0, 0>>

VAdd(a, b) == <<a[1] + b[1], a[2] + b[2], a[3] + b[3]>>

VSub(a, b) == <<a[1] - b[1], a[2] - b[2], a[3] - b[3]>>

\* v.scale(num / den)
VScale(v, num, den) ==
    <<RDiv(v[1] * num, den), RDiv(v[2] * num, den), RDiv(v[3] * num, den)>>

\* v.length()
Length(v) == Sqrt(v[1] * v[1] + v[2] * v[2] + v[3] * v[3])

\* v.normalize(): a vector of length 0 is returned as it is.
Normalize(v) ==
    LET l == Length(v) IN IF l = 0 THEN v ELSE VScale(v, S, l)

\* Vector3.Dot of two vectors of which one is a unit vector.
Dot(a, b) == RDiv(a[1] * b[1] + a[2] * b[2] + a[3] * b[3], S)

\* Vector3.Cross of two vectors of which one is a unit vector.
Cross(a, b) ==
    <<RDiv(a[2] * b[3] - a[3] * b[2], S),
      RDiv(a[3] * b[1] - a[1] * b[3], S),
      RDiv(a[1] * b[2] - a[2] * b[1], S)>>

\* Matrix.RotationAxis(axis, angle), rows m[1..3]; the library takes the sine
\* and cosine of -angle and normalizes the axis first.
RotationAxis(axis, angle) ==
    LET ax == Normalize(axis)
        s  == Sin(-angle)
        c  == Cos(-angle)
        c1 == S - c
        P(i, j) == RDiv(RDiv(ax[i] * ax[j], S) * c1, S)
        Q(i)    == RDiv(ax[i] * s, S)
    IN  << <<P(1, 1) + c,    P(1, 2) - Q(3), P(1, 3) + Q(2)>>,
           <<P(2, 1) + Q(3), P(2, 2) + c,    P(2, 3) - Q(1)>>,
           <<P(3, 1) - Q(2), P(3, 2) + Q(1), P(3, 3) + c>> >>

\* Vector3.TransformCoordinates(v, m) and Vector3.TransformNormal(v, m) for a
\* matrix without translation: the row vector v times m.
Transform(v, m) ==
    <<RDiv(v[1] * m[1][1] + v[2] * m[2][1] + v[3] * m[3][1], S),
      RDiv(v[1] * m[1][2] + v[2] * m[2][2] + v[3] * m[3][2], S),
      RDiv(v[1] * m[1][3] + v[2] * m[2][3] + v[3] * m[3][3], S)>>

----------------------------------------------------------------------------
(* The state                                                               *)

VARIABLES
    player,     \* the local avatar: the fields of Player (Planet.ts 246-292)
    observed,   \* what the last operation on the local avatar did
    stepsLeft,  \* operations the behaviour may still perform
    remote,     \* a remote avatar: the interpolation fields of Player
    tick,       \* what the last operation on the remote avatar did
    now,        \* Date.now(), in ms
    store,      \* the realtime database: players, projectiles, deathEffects
    pushed,     \* how many keys push() has made in each collection
    client,     \* each client's MultiplayerManager and its connection
    timeouts,   \* the pending setTimeout callbacks of the clients
    event,      \* what the last handler of a client did
    leftExpired, \* the expired records each client's last sweep left behind
    publisher,  \* updatePlayerData of one client, frame by frame
    projectile, \* one Projectile and the calls it has made
    sweeper,    \* the players collection, the sweeps and the writes under way
    listener    \* one run of the players listener on a snapshot

\* The variables of the replication layer.
netVars == <<store, pushed, client, timeouts, event, leftExpired>>

\* The variables of the parts of the replication layer taken alone.
partVars == <<publisher, projectile, sweeper, listener>>

vars == <<player, observed, stepsLeft, remote, tick, now, netVars, partVars>>

----------------------------------------------------------------------------
(* Player (Planet.ts): constants                                           *)

baseRadius == 4 * S

\* The surface level 0.60 of heightAboveSurface.
SURFACE_HEIGHT == 600

MAX_HEIGHT == 3 * S

JETPACK_FORCE == 6

GRAVITY_FORCE == 3

MAX_FUEL == 100 * FS

\* Fuel per second, in 1/100 of a fuel unit: 16.67 and 12.67.
FUEL_BURN_RATE == 1667

FUEL_REFILL_RATE == 1267

\* 10 % of MAX_FUEL: the level at which hasFuel returns.
FuelRestoreLevel == MAX_FUEL \div 10

movementSpeed == 1

----------------------------------------------------------------------------
(* Bounds of the model and the inputs the operations are tried with        *)

\* Operations on the local avatar in one behaviour of SpecAvatar.
MaxSteps == 3

\* Physics ticks and respawns in one behaviour of SpecThrust.
MaxTicks == 6

\* Samples and frames of the remote avatar in one behaviour of SpecRemote.
MaxFrames == 6

\* Frame times, in ms, of the physics ticks: none, one frame at 60 fps, a
\* slow frame, and stalls of one and three seconds.
TickDts == {0, 16, 1000, 3000}

\* Frame times, in ms, of the movement steps.
MoveDts == {16, 500}

\* Turn angles of rotate(), in 1/1000 rad.
TurnAngles == {-100, 300}

\* The random angles <<theta, phi>> of spawnRandomPosition, in 1/1000 rad.
SpawnAngles == {<<500, 0>>, <<1571, 1000>>, <<2000, 2000>>}

----------------------------------------------------------------------------
(* Player (Planet.ts): the local avatar                                    *)

\* mesh.rotationQuaternion built from the axes right, up, forward by
\* Matrix.FromXYZAxesToRef and Quaternion.FromRotationMatrix; mesh.right and
\* mesh.forward read the first and the third axis back.
FromXYZAxes(p, localRight, localUp, localForward) ==
    [p EXCEPT !.right = localRight, !.up = localUp, !.forward = localForward]

\* spawnRandomPosition(), with the two random angles as inputs.
spawnRandomPosition(p, theta, phi) ==
    LET spawnRadius == baseRadius + p.heightAboveSurface
        x == RDiv(RDiv(spawnRadius * Sin(theta), S) * Cos(phi), S)
        y == RDiv(spawnRadius * Cos(theta), S)
        z == RDiv(RDiv(spawnRadius * Sin(theta), S) * Sin(phi), S)
        pos == <<x, y, z>>
        toPlanetCenter == Normalize(VSub(Zero, pos))
        localUp == VScale(toPlanetCenter, -1, 1)
        perp(a) == Normalize(VSub(a, VScale(localUp, Dot(a, localUp), S)))
        fwd == perp(<<0, 0, S>>)
        localForward == IF 10 * Length(fwd) < S THEN perp(<<S, 0, 0>>) ELSE fwd
        localRight == Normalize(Cross(localUp, localForward))
    IN  FromXYZAxes([p EXCEPT !.position = pos],
                    localRight, localUp, localForward)

\* The fields of a Player after the field initializers (Planet.ts 247-263).
NewPlayer ==
    [heightAboveSurface |-> SURFACE_HEIGHT, verticalVelocity |-> 0,
     jetpackActive |-> FALSE, fuel |-> 80 * FS, hasFuel |-> TRUE,
     position |-> Zero, right |-> Zero, up |-> Zero, forward |-> Zero]

\* moveAlongOrbit(crossAxis, deltaTime), deltaTime in ms.
moveAlongOrbit(p, crossAxis, dt) ==
    LET toPlanetCenter == Normalize(VSub(Zero, p.position))
        orbitDirection == Normalize(Cross(crossAxis, toPlanetCenter))
        angle == movementSpeed * dt
        rotationMatrix == RotationAxis(orbitDirection, angle)
        orbitRadius == baseRadius + p.heightAboveSurface
        newPosition == Transform(p.position, rotationMatrix)
        localUp == VScale(toPlanetCenter, -1, 1)
        localForward == p.forward
        localRight == Normalize(Cross(localUp, localForward))
        correctedForward == Normalize(Cross(localRight, localUp))
    IN  FromXYZAxes(
            [p EXCEPT !.position = VScale(Normalize(newPosition), orbitRadius, S)],
            localRight, localUp, correctedForward)

\* rotate(deltaRadians), the angle in 1/1000 rad.
rotate(p, deltaRadians) ==
    LET toPlanetCenter == Normalize(VSub(Zero, p.position))
        localUp == VScale(toPlanetCenter, -1, 1)
        rotationMatrix == RotationAxis(localUp, deltaRadians)
        newForward == Transform(p.forward, rotationMatrix)
        newRight == Transform(p.right, rotationMatrix)
    IN  FromXYZAxes(p, newRight, localUp, newForward)

\* updateFuel without the cap at MAX_FUEL.
updateFuel_NoCap(p, dt) ==
    IF p.jetpackActive
    THEN LET f == p.fuel - RDiv(FUEL_BURN_RATE * dt, S)
         IN  IF f <= 0
             THEN [p EXCEPT !.fuel = 0, !.hasFuel = FALSE]
             ELSE [p EXCEPT !.fuel = f]
    ELSE LET f == p.fuel + RDiv(FUEL_REFILL_RATE * dt, S)
         IN  [p EXCEPT !.fuel = f,
                       !.hasFuel = IF ~p.hasFuel /\ f >= MAX_FUEL \div 10
                                   THEN TRUE ELSE p.hasFuel]

\* updateFuel that restores hasFuel as soon as there is any fuel.
updateFuel_RestoreEarly(p, dt) ==
    IF p.jetpackActive
    THEN LET f == p.fuel - RDiv(FUEL_BURN_RATE * dt, S)
         IN  IF f <= 0
             THEN [p EXCEPT !.fuel = 0, !.hasFuel = FALSE]
             ELSE [p EXCEPT !.fuel = f]
    ELSE LET f  == p.fuel + RDiv(FUEL_REFILL_RATE * dt, S)
             f2 == IF f > MAX_FUEL THEN MAX_FUEL ELSE f
         IN  [p EXCEPT !.fuel = f2,
                       !.hasFuel = IF ~p.hasFuel /\ f2 > 0
                                   THEN TRUE ELSE p.hasFuel]

\* updateFuel that never restores hasFuel while refilling.
updateFuel_NoRestore(p, dt) ==
    IF p.jetpackActive
    THEN LET f == p.fuel - RDiv(FUEL_BURN_RATE * dt, S)
         IN  IF f <= 0
             THEN [p EXCEPT !.fuel = 0, !.hasFuel = FALSE]
             ELSE [p EXCEPT !.fuel = f]
    ELSE LET f  == p.fuel + RDiv(FUEL_REFILL_RATE * dt, S)
             f2 == IF f > MAX_FUEL THEN MAX_FUEL ELSE f
         IN  [p EXCEPT !.fuel = f2]

\* updateFuel(deltaTime), deltaTime in ms.
updateFuel(p, dt) ==
    IF p.jetpackActive
    THEN LET f == p.fuel - RDiv(FUEL_BURN_RATE * dt, S)
         IN  IF f <= 0
             THEN [p EXCEPT !.fuel = 0, !.hasFuel = FALSE]
             ELSE [p EXCEPT !.fuel = f]
    ELSE LET f  == p.fuel + RDiv(FUEL_REFILL_RATE * dt, S)
             f2 == IF f > MAX_FUEL THEN MAX_FUEL ELSE f
         IN  [p EXCEPT !.fuel = f2,
                       !.hasFuel = IF ~p.hasFuel /\ f2 >= FuelRestoreLevel
                                   THEN TRUE ELSE p.hasFuel]

\* The thrust test of updatePhysics (Planet.ts 694), on the avatar after
\* updateFuel.
ThrustApplies(q) ==
    q.jetpackActive /\ q.hasFuel /\ q.heightAboveSurface < MAX_HEIGHT

\* The vertical velocity after thrust and gravity (Planet.ts 694-699).
IntegrateVelocity(q, dt) ==
    q.verticalVelocity
        + (IF ThrustApplies(q) THEN JETPACK_FORCE * dt ELSE 0)
        - GRAVITY_FORCE * dt

\* The height after integration, before the clamp (Planet.ts 702).
IntegrateHeight(q, v, dt) == q.heightAboveSurface + RDiv(v * dt, S)

\* A clamp that keeps the velocity at the bounds.
ClampHeight_KeepVelocity(h, v) ==
    IF h < SURFACE_HEIGHT THEN <<SURFACE_HEIGHT, v>>
    ELSE IF h > MAX_HEIGHT THEN <<MAX_HEIGHT, v>>
    ELSE <<h, v>>

\* The clamp of the height (Planet.ts 705-711): the height and the velocity.
ClampHeight(h, v) ==
    IF h < SURFACE_HEIGHT THEN <<SURFACE_HEIGHT, 0>>
    ELSE IF h > MAX_HEIGHT THEN <<MAX_HEIGHT, 0>>
    ELSE <<h, v>>

\* updatePhysics that leaves the position where it is.
Reproject_Skip(pos, h) == pos

\* The new position of updatePhysics (Planet.ts 714-716).
Reproject(pos, h) == VScale(Normalize(pos), baseRadius + h, S)

\* updatePhysics(deltaTime) of a local avatar, deltaTime in ms.  The particle
\* system and the avatar's own projectiles (Planet.ts 719-722) are not fields
\* of this record.
updatePhysics(p, dt) ==
    LET q  == updateFuel(p, dt)
        v  == IntegrateVelocity(q, dt)
        h  == IntegrateHeight(q, v, dt)
        hv == ClampHeight(h, v)
    IN  [q EXCEPT !.verticalVelocity = hv[2],
                  !.heightAboveSurface = hv[1],
                  !.position = Reproject(q.position, hv[1])]

\* activateJetpack() and deactivateJetpack()
activateJetpack(p) == [p EXCEPT !.jetpackActive = TRUE]

deactivateJetpack(p) == [p EXCEPT !.jetpackActive = FALSE]

\* respawn(), with the two random angles of spawnRandomPosition as inputs.
respawn(p, theta, phi) ==
    LET q == spawnRandomPosition(
                 [p EXCEPT !.verticalVelocity = 0,
                           !.heightAboveSurface = SURFACE_HEIGHT],
                 theta, phi)
    IN  deactivateJetpack([q EXCEPT !.fuel = MAX_FUEL \div 2, !.hasFuel = TRUE])

----------------------------------------------------------------------------
(* The local avatar: operations                                            *)

\* What an operation leaves in `observed`: its name, hasFuel before it, and
\* for a physics tick the height after integration (before the clamp) and
\* whether the thrust was applied.
Observe(op, h, thrust) ==
    [op |-> op, hadFuel |-> player.hasFuel, integratedHeight |-> h,
     thrustApplied |-> thrust]

\* An operation other than a physics tick that turns the avatar into q.
Operate(op, q) ==
    /\ player' = q
    /\ observed' = Observe(op, q.heightAboveSurface, FALSE)
    /\ UNCHANGED <<remote, tick, now, netVars, partVars>>

\* new Player(scene, planet): the field initializers, then createPlayerMesh
\* with the random angles of spawnRandomPosition.
InitPlayer ==
    /\ \E a \in SpawnAngles : player = spawnRandomPosition(NewPlayer, a[1], a[2])
    /\ observed = [op |-> "new", hadFuel |-> TRUE,
                   integratedHeight |-> SURFACE_HEIGHT, thrustApplied |-> FALSE]

MoveForward ==
    /\ stepsLeft > 0 /\ stepsLeft' = stepsLeft - 1
    /\ \E dt \in MoveDts :
         Operate("moveForward", moveAlongOrbit(player, player.forward, dt))

MoveBackward ==
    /\ stepsLeft > 0 /\ stepsLeft' = stepsLeft - 1
    /\ \E dt \in MoveDts :
         Operate("moveBackward",
                 moveAlongOrbit(player, VScale(player.forward, -1, 1), dt))

StrafeLeft ==
    /\ stepsLeft > 0 /\ stepsLeft' = stepsLeft - 1
    /\ \E dt \in MoveDts :
         Operate("strafeLeft",
                 moveAlongOrbit(player, VScale(player.right, -1, 1), dt))

StrafeRight ==
    /\ stepsLeft > 0 /\ stepsLeft' = stepsLeft - 1
    /\ \E dt \in MoveDts :
         Operate("strafeRight", moveAlongOrbit(player, player.right, dt))

Rotate ==
    /\ stepsLeft > 0 /\ stepsLeft' = stepsLeft - 1
    /\ \E a \in TurnAngles : Operate("rotate", rotate(player, a))

UpdatePhysics ==
    /\ stepsLeft > 0 /\ stepsLeft' = stepsLeft - 1
    /\ \E dt \in TickDts :
         LET q == updateFuel(player, dt)
             v == IntegrateVelocity(q, dt)
         IN  /\ player' = updatePhysics(player, dt)
             /\ observed' = Observe("updatePhysics", IntegrateHeight(q, v, dt),
                                    ThrustApplies(q))
             /\ UNCHANGED <<remote, tick, now, netVars, partVars>>

\* The two key states of the space bar; pressing a pressed key changes nothing.
ActivateJetpack ==
    /\ ~player.jetpackActive
    /\ Operate("activateJetpack", activateJetpack(player))
    /\ UNCHANGED stepsLeft

DeactivateJetpack ==
    /\ player.jetpackActive
    /\ Operate("deactivateJetpack", deactivateJetpack(player))
    /\ UNCHANGED stepsLeft

Respawn ==
    /\ stepsLeft > 0 /\ stepsLeft' = stepsLeft - 1
    /\ \E a \in SpawnAngles : Operate("respawn", respawn(player, a[1], a[2]))

\* The specifications of one avatar have no database and no clients.
NoParts ==
    /\ publisher = <<>> /\ projectile = <<>>
    /\ sweeper = <<>> /\ listener = <<>>

NoNet ==
    /\ store = <<>> /\ pushed = <<>> /\ client = <<>>
    /\ timeouts = {} /\ event = <<>> /\ leftExpired = <<>>
    /\ NoParts

\* The specifications of the local avatar have no remote avatar.
NoRemote == remote = <<>> /\ tick = <<>> /\ now = 0 /\ NoNet

\* The thrust controller alone: physics ticks, the jetpack key and respawns.
InitThrust == InitPlayer /\ stepsLeft = MaxTicks /\ NoRemote

NextThrust == UpdatePhysics \/ ActivateJetpack \/ DeactivateJetpack \/ Respawn

SpecThrust == InitThrust /\ [][NextThrust]_vars

\* Every operation on the local avatar.
InitAvatar == InitPlayer /\ stepsLeft = MaxSteps /\ NoRemote

NextAvatar ==
    \/ MoveForward \/ MoveBackward \/ StrafeLeft \/ StrafeRight \/ Rotate
    \/ UpdatePhysics \/ ActivateJetpack \/ DeactivateJetpack \/ Respawn

SpecAvatar == InitAvatar /\ [][NextAvatar]_vars

----------------------------------------------------------------------------
(* The local avatar: properties                                            *)

\* The distance of the avatar from the planet centre.
Radius == Length(player.position)

\* The rounding of a position: half a unit of the last place in each of the
\* three coordinates of the unit vector, scaled to the largest radius.
RadiusTolerance == 1 + RDiv(baseRadius + MAX_HEIGHT, S)

\* C1: after any sequence of operations on the local avatar its distance from
\* the planet centre is baseRadius + heightAboveSurface, up to rounding.
C1_SurfaceLock ==
    Abs(Radius - (baseRadius + player.heightAboveSurface)) <= RadiusTolerance

\* C1, witness: a movement step of an avatar that has left the surface.
C1_Witness ==
    /\ observed.op \in {"moveForward", "moveBackward", "strafeLeft", "strafeRight"}
    /\ player.heightAboveSurface > SURFACE_HEIGHT
    /\ stepsLeft = 0

\* C2: the height stays in [0.60, MAX_HEIGHT], and a tick whose integrated
\* height leaves that range sets the height to the bound it crossed and the
\* vertical velocity to 0.
C2_HeightClamped ==
    /\ player.heightAboveSurface >= SURFACE_HEIGHT
    /\ player.heightAboveSurface <= MAX_HEIGHT
    /\ observed.op = "updatePhysics" =>
         /\ observed.integratedHeight < SURFACE_HEIGHT =>
              /\ player.heightAboveSurface = SURFACE_HEIGHT
              /\ player.verticalVelocity = 0
         /\ observed.integratedHeight > MAX_HEIGHT =>
              /\ player.heightAboveSurface = MAX_HEIGHT
              /\ player.verticalVelocity = 0

\* C2, witness: a tick under thrust whose integrated height is above
\* MAX_HEIGHT.
C2_Witness ==
    /\ observed.op = "updatePhysics"
    /\ observed.thrustApplied
    /\ observed.integratedHeight > MAX_HEIGHT

\* C3: fuel stays in [0, MAX_FUEL].
C3_FuelInRange == player.fuel >= 0 /\ player.fuel <= MAX_FUEL

\* C3, witness: a refill tick that ends with a full tank.
C3_Witness ==
    /\ observed.op = "updatePhysics"
    /\ ~player.jetpackActive
    /\ player.fuel = MAX_FUEL

\* C4: hasFuel turns true only in a step that leaves fuel >= 10 % of MAX_FUEL,
\* a tick that leaves fuel >= 10 % turns it true, and no tick applies thrust
\* without it.
C4_Hysteresis ==
    /\ (~observed.hadFuel /\ player.hasFuel) => player.fuel >= FuelRestoreLevel
    /\ (observed.op = "updatePhysics" /\ ~observed.hadFuel
            /\ player.fuel >= FuelRestoreLevel) => player.hasFuel
    /\ observed.thrustApplied => player.hasFuel

\* C4, witness: a tick that turns hasFuel true again.
C4_Witness ==
    /\ observed.op = "updatePhysics"
    /\ ~observed.hadFuel
    /\ player.hasFuel

----------------------------------------------------------------------------
(* Player (Planet.ts): a remote avatar                                     *)

\* null
Null == <<>>

POSITION_INTERPOLATION_SPEED == 15

\* 0.25, 0.2 and the velocityFactor 0.2 of updateRemoteInterpolation.
SMOOTHING_FACTOR == S \div 4

HEIGHT_SMOOTHING_FACTOR == S \div 5

velocityFactor == S \div 5

\* The positions <<angle, height>> a peer publishes: points of the great
\* circle through the poles in the plane z = 0, the angle from the +y axis in
\* 1/1000 rad, the height above the surface in 1/1000 unit.
SamplePoints == {<<520, 600>>, <<600, 600>>, <<700, 600>>, <<520, 1000>>}

SamplePosition(a) ==
    VScale(<<Sin(a[1]), Cos(a[1]), 0>>, baseRadius + a[2], S)

\* Frame times, in ms, of the interpolation ticks.
FrameDts == {16, 33, 100}

\* The fields of a Player made by new Player(scene, planet) and
\* setAsRemotePlayer(): the mesh at the random spawn position <<theta, phi>>.
NewRemotePlayer(theta, phi) ==
    [position |-> spawnRandomPosition(NewPlayer, theta, phi).position,
     targetPosition |-> Null, currentInterpolatedPosition |-> Null,
     previousTargetPosition |-> Null, estimatedVelocity |-> Null,
     remoteHeightAboveSurface |-> SURFACE_HEIGHT, targetHeight |-> SURFACE_HEIGHT,
     previousHeight |-> SURFACE_HEIGHT, estimatedVerticalVelocity |-> 0,
     lastRemotePositionUpdate |-> 0]

\* setRemotePosition(position) at Date.now() = time.
setRemotePosition(r, position, time) ==
    LET timeSinceLastUpdate == time - r.lastRemotePositionUpdate
        positionMagnitude == Length(position)
        previousHeight == r.targetHeight
        targetHeight == positionMagnitude - baseRadius
        heightDelta == targetHeight - previousHeight
        timeDelta == Max(16, timeSinceLastUpdate)
        vertical == IF previousHeight # targetHeight
                    THEN RDiv(heightDelta * S, timeDelta)
                    ELSE r.estimatedVerticalVelocity
        velocity == VSub(r.targetPosition, r.previousTargetPosition)
        estimated ==
            IF r.targetPosition # Null /\ r.previousTargetPosition # Null
               /\ Length(velocity) > 1
            THEN IF r.estimatedVelocity = Null
                 THEN velocity
                 ELSE VAdd(VScale(r.estimatedVelocity, 7, 10),
                           VScale(velocity, 3, 10))
            ELSE r.estimatedVelocity
        first == r.currentInterpolatedPosition = Null
    IN  [r EXCEPT !.lastRemotePositionUpdate = time,
                  !.previousHeight = previousHeight,
                  !.targetHeight = targetHeight,
                  !.estimatedVerticalVelocity = vertical,
                  !.estimatedVelocity = estimated,
                  !.previousTargetPosition = r.targetPosition,
                  !.targetPosition = position,
                  !.currentInterpolatedPosition =
                      IF first THEN r.position ELSE @,
                  !.remoteHeightAboveSurface =
                      IF first THEN targetHeight ELSE @]

\* The height part of updateRemoteInterpolation (Planet.ts 742-756).
InterpolateHeight(r, dt) ==
    LET heightDiff == r.targetHeight - r.remoteHeightAboveSurface
        heightDelta == RDiv(heightDiff * HEIGHT_SMOOTHING_FACTOR, S)
        predictedHeight ==
            heightDelta + RDiv(r.estimatedVerticalVelocity * dt, 2 * S)
    IN  IF Abs(heightDiff) > 1
        THEN Max(SURFACE_HEIGHT,
                 Min(r.remoteHeightAboveSurface + predictedHeight, MAX_HEIGHT))
        ELSE r.remoteHeightAboveSurface

\* The step of one tick toward the target (Planet.ts 768-780).
MoveVector(r, cur, dt) ==
    LET maxPositionDelta == POSITION_INTERPOLATION_SPEED * dt
        toTarget == VSub(r.targetPosition, cur)
        smoothed == VScale(toTarget, Min(S, SMOOTHING_FACTOR), S)
        predicted ==
            IF r.estimatedVelocity # Null /\ Length(r.estimatedVelocity) > 1
            THEN VAdd(smoothed, VScale(r.estimatedVelocity, velocityFactor, S))
            ELSE smoothed
    IN  IF Length(predicted) > maxPositionDelta
        THEN VScale(Normalize(predicted), maxPositionDelta, S)
        ELSE predicted

\* updateRemoteInterpolation(deltaTime), deltaTime in ms: the height and the
\* position.  The rotation (Planet.ts 794-804) and the particle system are
\* not fields of this record.
updateRemoteInterpolation(r, dt) ==
    IF r.targetPosition = Null THEN r
    ELSE
    LET cur == IF r.currentInterpolatedPosition = Null
               THEN r.position ELSE r.currentInterpolatedPosition
        h == InterpolateHeight(r, dt)
        distanceToTarget == Length(VSub(r.targetPosition, cur))
        moved == VScale(Normalize(VAdd(cur, MoveVector(r, cur, dt))),
                        baseRadius + h, S)
    IN  IF 10000 * distanceToTarget > S
        THEN [r EXCEPT !.remoteHeightAboveSurface = h,
                       !.currentInterpolatedPosition = moved,
                       !.position = moved]
        ELSE [r EXCEPT !.remoteHeightAboveSurface = h,
                       !.currentInterpolatedPosition = cur]

----------------------------------------------------------------------------
(* The remote avatar: operations                                           *)

\* The distance from the interpolated position to the target.
DistanceToTarget(r) ==
    IF r.targetPosition = Null \/ r.currentInterpolatedPosition = Null
    THEN 0
    ELSE Length(VSub(r.targetPosition, r.currentInterpolatedPosition))

\* A snapshot delivers a sample of the peer's position
\* (MultiplayerManager.updateRemotePlayer).
SetRemotePosition ==
    /\ stepsLeft > 0 /\ stepsLeft' = stepsLeft - 1
    /\ \E a \in SamplePoints :
         remote' = setRemotePosition(remote, SamplePosition(a), now)
    /\ tick' = [op |-> "setRemotePosition", dt |-> 0,
                before |-> remote.position,
                distanceBefore |-> DistanceToTarget(remote),
                was |-> remote]
    /\ UNCHANGED <<player, observed, now, netVars, partVars>>

\* A frame of the render loop: Player.update(deltaTime) of a remote avatar,
\* deltaTime being the time since the frame before.
UpdateRemoteInterpolation ==
    /\ stepsLeft > 0 /\ stepsLeft' = stepsLeft - 1
    /\ \E dt \in FrameDts :
         /\ now' = now + dt
         /\ remote' = updateRemoteInterpolation(remote, dt)
         /\ tick' = [op |-> "updateRemoteInterpolation", dt |-> dt,
                     before |-> IF remote.currentInterpolatedPosition = Null
                                THEN remote.position
                                ELSE remote.currentInterpolatedPosition,
                     distanceBefore |-> DistanceToTarget(remote)]
    /\ UNCHANGED <<player, observed, netVars, partVars>>

\* Date.now() when the remote avatar is made.
StartTime == 10 ^ 6

InitRemote ==
    /\ \E a \in SpawnAngles : remote = NewRemotePlayer(a[1], a[2])
    /\ tick = [op |-> "new", dt |-> 0, before |-> remote.position,
               distanceBefore |-> 0]
    /\ now = StartTime
    /\ stepsLeft = MaxFrames
    /\ player = NewPlayer
    /\ observed = <<>>
    /\ NoNet

NextRemote == SetRemotePosition \/ UpdateRemoteInterpolation

SpecRemote == InitRemote /\ [][NextRemote]_vars

----------------------------------------------------------------------------
(* The remote avatar: properties                                           *)

\* What rounding can add to a distance between two interpolated positions:
\* 0.05 unit, several times the rounding of one position.
InterpolationTolerance == S \div 20

\* The displacement of the interpolated position in the last tick.
Displacement ==
    Length(VSub(remote.currentInterpolatedPosition, tick.before))

\* C6: a tick without a new sample never takes the interpolated position
\* farther from the target than it was (up to rounding), so the position
\* approaches the target and never passes beyond it.
C6_MonotoneApproach ==
    tick.op = "updateRemoteInterpolation" =>
        DistanceToTarget(remote) <= tick.distanceBefore + InterpolationTolerance

\* C7: one tick with elapsed time dt displaces the interpolated position by at
\* most POSITION_INTERPOLATION_SPEED * dt (up to rounding).
C7_StepBounded ==
    (tick.op = "updateRemoteInterpolation" /\ remote.targetPosition # Null) =>
        Displacement <= POSITION_INTERPOLATION_SPEED * tick.dt
                            + InterpolationTolerance

----------------------------------------------------------------------------
(* MultiplayerManager (part_002): the database and the clients             *)

\* The uuids of the clients' local players.  The database lists the keys of
\* a collection in ascending order.
Clients == {1, 2}

\* The uuid that new Player() generates for the shadow that client c makes
\* of peer u: a random uuid that no other player has.
ShadowUUID(c, u) == 100 + 10 * c + u

\* Time advances in steps of two seconds.
TickMs == 2 * 10 ^ 3

\* The ages, in ms, beyond which the listeners skip a record and the sweep
\* deletes it.
PlayerTTL == 10000

ProjectileTTL == 2000

EffectTTL == 3000

\* The period of the cleanupStaleData timer.
CleanupInterval == 10000

\* Projectile.lifespan, and the delays of the three setTimeout calls.
lifespan == 800

ProjectileRemoveDelay == 2000

EffectRemoveDelay == 3000

ParticlesDelay == 3000

\* Ages are counted up to AgeCap and stay there: the database holds
\* lastUpdate and createdAt, and every reader uses Date.now() minus them.
AgeCap == PlayerTTL + TickMs

\* The age of a local projectile copy is compared with lifespan only.
FlightCap == TickMs

\* Projectiles and death effects the clients may push, and the inputs
\* (joins, frames, shots, connection events) a behaviour may hold.
MaxShots == 2

MaxEffects == 1

MaxNetSteps == 4

Kinds == {"players", "projectiles", "deathEffects"}

Without(f, K) == [k \in DOMAIN f \ K |-> f[k]]

With(f, k, v) == [x \in DOMAIN f \cup {k} |-> IF x = k THEN v ELSE f[x]]

\* The fields of a MultiplayerManager, with the state of its page (absent,
\* running, gone), whether the server still holds its onDisconnect request,
\* the time left on its cleanup timer, the local player's projectiles
\* (Player.projectiles) and the collections whose listener has a snapshot
\* to process.
NoManager ==
    [status |-> "absent", armed |-> FALSE, isHost |-> FALSE,
     cleanupTimer |-> 0, otherPlayers |-> {}, otherProjectiles |-> <<>>,
     deathEffects |-> {}, projectiles |-> <<>>, dirty |-> {}]

Running == {c \in Clients : client[c].status = "running"}

\* A change of the collections `kinds` reaches the listeners of every
\* connected client.
Notified(cls, kinds) ==
    [c \in Clients |->
        IF cls[c].status = "running"
        THEN [cls[c] EXCEPT !.dirty = @ \cup kinds] ELSE cls[c]]

\* What a handler leaves in `event`.
Handled(op, c, processed, stale, hits) ==
    [op |-> op, client |-> c, processed |-> processed, stale |-> stale,
     hits |-> hits]

\* The handlers that the properties do not look at leave this.
Idle == Handled("none", 0, {}, {}, {})

\* No record of any collection.
NoneExpired == [k \in Kinds |-> {}]

\* updatePlayerData of client c writes a new lastUpdate.
Refreshed(c) ==
    [d \in Clients |-> [leftExpired[d] EXCEPT !.players = @ \ {c}]]

\* Every snapshot has been delivered to its listeners.
Quiet == \A c \in Running : client[c].dirty = {}

\* The handlers of the replication layer leave the avatars alone.
AvatarsUnchanged ==
    UNCHANGED <<player, observed, remote, tick, now, partVars>>

----------------------------------------------------------------------------
(* MultiplayerManager: the snapshot listeners                              *)

PlayerIsStale_Never(age) == FALSE

\* currentTime - playerData.lastUpdate > 10000
PlayerIsStale(age) == age > PlayerTTL

\* currentTime - projData.createdAt > 2000
ProjectileIsOld(age) == age > ProjectileTTL

\* currentTime - effectData.createdAt > 3000
EffectIsOld(age) == age > EffectTTL

PlayersProcessed_OwnToo(c, players) ==
    {u \in DOMAIN players : ~PlayerIsStale(players[u].age)}

\* The records for which the players listener of client c creates or updates
\* a shadow.
PlayersProcessed(c, players) ==
    {u \in DOMAIN players : u # c /\ ~PlayerIsStale(players[u].age)}

\* The callback of setupPlayerListeners.
onPlayersValue(cl, c, players) ==
    IF DOMAIN players = {} THEN cl
    ELSE [cl EXCEPT !.otherPlayers =
              (@ \cup PlayersProcessed(c, players)) \cap DOMAIN players]

\* The records for which the projectiles listener would create a shadow.
ProjectilesProcessed(c, projectiles) ==
    {id \in DOMAIN projectiles :
        /\ projectiles[id].ownerUUID # c
        /\ ~ProjectileIsOld(projectiles[id].age)}

\* The callback of setupProjectileListeners.
onProjectilesValue(cl, c, projectiles) ==
    IF DOMAIN projectiles = {} THEN cl
    ELSE LET old == cl.otherProjectiles
             kept == (DOMAIN old \cup ProjectilesProcessed(c, projectiles))
                         \cap DOMAIN projectiles
         IN  [cl EXCEPT !.otherProjectiles =
                 [id \in kept |->
                     IF id \in DOMAIN old THEN old[id]
                     ELSE [ownerUUID |-> projectiles[id].ownerUUID,
                           isActive |-> TRUE, age |-> 0]]]

\* The records for which the death effects listener would create particles.
EffectsProcessed(effects) ==
    {id \in DOMAIN effects : ~EffectIsOld(effects[id].age)}

\* The callback of setupDeathEffectListeners.
onDeathEffectsValue(cl, effects) ==
    [cl EXCEPT !.deathEffects = @ \cup EffectsProcessed(effects)]

\* The setTimeout of createDeathEffectParticles for the effects `ids`.
ParticleTimeouts(c, ids) ==
    {[client |-> c, kind |-> "particles", id |-> id,
      remaining |-> ParticlesDelay] : id \in ids}

----------------------------------------------------------------------------
(* MultiplayerManager: the listeners' actions                              *)

\* The records of a snapshot that are older than ttl.
Expired(records, ttl) == {k \in DOMAIN records : records[k].age > ttl}

\* The callbacks of different listeners touch different maps; they run one
\* after the other, by client and by collection.
Pending(c, kind) ==
    /\ c \in Running /\ kind \in client[c].dirty
    /\ \A d \in Running : d < c => client[d].dirty = {}
    /\ kind = "projectiles" => "players" \notin client[c].dirty
    /\ kind = "deathEffects" => client[c].dirty = {kind}

Listened(c, kind, cl) ==
    client' = [client EXCEPT ![c] = [cl EXCEPT !.dirty = @ \ {kind}]]

OnPlayersValue(c) ==
    /\ Pending(c, "players")
    /\ Listened(c, "players", onPlayersValue(client[c], c, store.players))
    /\ event' = Handled("onPlayersValue", c,
                        PlayersProcessed(c, store.players),
                        Expired(store.players, PlayerTTL), {})
    /\ UNCHANGED <<store, pushed, timeouts, leftExpired, stepsLeft>>
    /\ AvatarsUnchanged

OnProjectilesValue(c) ==
    /\ Pending(c, "projectiles")
    /\ Listened(c, "projectiles",
                onProjectilesValue(client[c], c, store.projectiles))
    /\ event' = Handled("onProjectilesValue", c,
                        ProjectilesProcessed(c, store.projectiles)
                            \ DOMAIN client[c].otherProjectiles,
                        Expired(store.projectiles, ProjectileTTL), {})
    /\ UNCHANGED <<store, pushed, timeouts, leftExpired, stepsLeft>>
    /\ AvatarsUnchanged

OnDeathEffectsValue(c) ==
    LET created == EffectsProcessed(store.deathEffects)
                       \ client[c].deathEffects
    IN  /\ Pending(c, "deathEffects")
        /\ Listened(c, "deathEffects",
                    onDeathEffectsValue(client[c], store.deathEffects))
        /\ timeouts' = timeouts \cup ParticleTimeouts(c, created)
        /\ event' = Handled("onDeathEffectsValue", c, created,
                            Expired(store.deathEffects, EffectTTL), {})
        /\ UNCHANGED <<store, pushed, leftExpired, stepsLeft>>
        /\ AvatarsUnchanged

----------------------------------------------------------------------------
(* MultiplayerManager: joining, shooting and the render loop               *)

\* new MultiplayerManager(...): the three listeners, the cleanup timer, and
\* registerPlayer, which publishes the player and asks the server to remove
\* the record when the connection is lost.
Join(c) ==
    /\ stepsLeft > 0 /\ stepsLeft' = stepsLeft - 1
    /\ Quiet
    /\ client[c].status = "absent"
    /\ store' = [store EXCEPT !.players = With(@, c, [age |-> 0])]
    /\ client' = Notified(
           [client EXCEPT ![c] =
               [NoManager EXCEPT !.status = "running", !.armed = TRUE,
                                 !.cleanupTimer = CleanupInterval,
                                 !.dirty = Kinds]],
           {"players"})
    /\ leftExpired' = Refreshed(c)
    /\ event' = Idle
    /\ UNCHANGED <<pushed, timeouts>>
    /\ AvatarsUnchanged

\* Player.shoot() of the local player of c and addProjectile.
Shoot(c) ==
    LET id == pushed.projectiles + 1
    IN  /\ stepsLeft > 0 /\ stepsLeft' = stepsLeft - 1
        /\ c \in Running /\ Quiet
        /\ pushed.projectiles < MaxShots
        /\ pushed' = [pushed EXCEPT !.projectiles = id]
        /\ store' = [store EXCEPT !.projectiles =
                        With(@, id, [ownerUUID |-> c, age |-> 0])]
        /\ client' = Notified(
               [client EXCEPT ![c].projectiles = With(@, id, [age |-> 0])],
               {"projectiles"})
        /\ timeouts' = timeouts \cup
               {[client |-> c, kind |-> "removeProjectile", id |-> id,
                 remaining |-> ProjectileRemoveDelay]}
        /\ event' = Idle
        /\ UNCHANGED leftExpired
        /\ AvatarsUnchanged

\* The meshes named "player" in the scene of client c, each by the player it
\* represents: the local player and the shadows of otherPlayers.
MeshOwners(c) == {c} \cup client[c].otherPlayers

\* mesh.metadata.playerUUID: the uuid of the Player object that made the mesh.
MetadataUUID(c, u) == IF u = c THEN c ELSE ShadowUUID(c, u)

\* The meshes that the filter of Projectile.update lets a projectile of
\* ownerUUID hit.
Targets(c, ownerUUID) ==
    {u \in MeshOwners(c) : MetadataUUID(c, u) # ownerUUID}

NoHit == 0

HostRemoves_Anyone(isHost, retired) == retired

\* if (this.isHost) remove(ref(database, `projectiles/${id}`)), for the shadow
\* projectiles whose update() returned false.
HostRemoves(isHost, retired) == IF isHost THEN retired ELSE {}

\* (The record of a death effect has no owner field; `writer` is kept with it
\* to tell whose createDeathEffect wrote it.)
\* One frame of the render loop of client c: Player.update of the local
\* player (its projectiles), updatePlayerData and updateRemotePlayers.  The
\* frames that updatePlayerData skips come less than 33 ms after one that
\* published, and leave the record as young as it was.  hit[id] is the
\* first mesh that intersects projectile id among those the filter lets
\* through.
RenderFrame(c) ==
    /\ stepsLeft > 0 /\ stepsLeft' = stepsLeft - 1
    /\ c \in Running /\ Quiet
    /\ \E hit \in [1..MaxShots -> Clients \cup {NoHit}] :
         LET cl == client[c]
             own == cl.projectiles
             shadows == cl.otherProjectiles
             ownFlying == {id \in DOMAIN own : own[id].age <= lifespan}
             shadowFlying ==
                 {id \in DOMAIN shadows :
                     shadows[id].isActive /\ shadows[id].age <= lifespan}
             flying == ownFlying \cup shadowFlying
             ownerOf(id) == IF id \in DOMAIN own THEN c
                            ELSE shadows[id].ownerUUID
             struck == {id \in flying : hit[id] # NoHit}
             \* the shadow projectiles that hit the local player
             died == {id \in shadowFlying : hit[id] = c}
             effectIds == (pushed.deathEffects + 1) ..
                              (pushed.deathEffects + Cardinality(died))
             \* the shadow projectiles whose update() returned false
             retired == DOMAIN shadows \ (shadowFlying \ struck)
             removed == HostRemoves(cl.isHost, retired)
                            \cap DOMAIN store.projectiles
             changed == {"players"}
                        \cup (IF removed # {} THEN {"projectiles"} ELSE {})
                        \cup (IF died # {} THEN {"deathEffects"} ELSE {})
         IN  /\ \A id \in 1..MaxShots :
                  IF id \in flying
                  THEN hit[id] \in Targets(c, ownerOf(id)) \cup {NoHit}
                  ELSE hit[id] = NoHit
             /\ pushed.deathEffects + Cardinality(died) <= MaxEffects
             /\ pushed' = [pushed EXCEPT !.deathEffects =
                              @ + Cardinality(died)]
             /\ store' =
                  [players |-> With(store.players, c, [age |-> 0]),
                   projectiles |-> Without(store.projectiles, removed),
                   deathEffects |->
                       [id \in DOMAIN store.deathEffects \cup effectIds |->
                           IF id \in effectIds
                           THEN [age |-> 0, writer |-> c]
                           ELSE store.deathEffects[id]]]
             /\ client' = Notified(
                    [client EXCEPT ![c] =
                        [cl EXCEPT
                            !.projectiles =
                                [id \in ownFlying \ struck |-> own[id]],
                            !.otherProjectiles =
                                [id \in DOMAIN shadows |->
                                    IF id \in retired
                                    THEN [shadows[id] EXCEPT
                                              !.isActive = FALSE]
                                    ELSE shadows[id]],
                            !.deathEffects = @ \cup effectIds]],
                    changed)
             /\ timeouts' = timeouts \cup ParticleTimeouts(c, effectIds)
                    \cup {[client |-> c, kind |-> "removeEffect", id |-> id,
                           remaining |-> EffectRemoveDelay] : id \in effectIds}
             /\ event' = Handled("renderFrame", c, {}, {},
                    {[ownerUUID |-> ownerOf(id), represents |-> hit[id]] :
                        id \in struck})
             /\ leftExpired' = Refreshed(c)
    /\ AvatarsUnchanged

----------------------------------------------------------------------------
(* MultiplayerManager: time, the timeouts and the sweep                    *)

Older(records) ==
    [k \in DOMAIN records |->
        [records[k] EXCEPT !.age = Min(@ + TickMs, AgeCap)]]

InFlight(copies) ==
    [k \in DOMAIN copies |->
        [copies[k] EXCEPT !.age = Min(@ + TickMs, FlightCap)]]

\* Two seconds pass, once every snapshot has been delivered and every timer
\* that is due has run.
Tick ==
    /\ Quiet
    /\ \A c \in Running : client[c].cleanupTimer > 0
    /\ \A t \in timeouts : t.remaining > 0
    /\ store' = [players |-> Older(store.players),
                 projectiles |-> Older(store.projectiles),
                 deathEffects |-> Older(store.deathEffects)]
    /\ client' =
         [c \in Clients |->
             IF c \in Running
             THEN [client[c] EXCEPT
                      !.cleanupTimer = Max(0, @ - TickMs),
                      !.projectiles = InFlight(@),
                      !.otherProjectiles = InFlight(@)]
             ELSE client[c]]
    /\ timeouts' = {[t EXCEPT !.remaining = Max(0, @ - TickMs)] : t \in timeouts}
    /\ event' = Idle
    /\ UNCHANGED <<pushed, leftExpired, stepsLeft>>
    /\ AvatarsUnchanged

Due(t, kind) ==
    Quiet /\ t \in timeouts /\ t.kind = kind /\ t.remaining = 0

RemoveProjectileTimeout_Forgets(t) ==
    /\ Due(t, "removeProjectile")
    /\ timeouts' = timeouts \ {t}
    /\ event' = Idle
    /\ UNCHANGED <<store, client, pushed, leftExpired, stepsLeft>>
    /\ AvatarsUnchanged

\* The setTimeout of addProjectile: the owner removes the record.
RemoveProjectileTimeout(t) ==
    /\ Due(t, "removeProjectile")
    /\ timeouts' = timeouts \ {t}
    /\ store' = [store EXCEPT !.projectiles = Without(@, {t.id})]
    /\ client' = Notified(client, IF t.id \in DOMAIN store.projectiles
                                  THEN {"projectiles"} ELSE {})
    /\ event' = Idle
    /\ UNCHANGED <<pushed, leftExpired, stepsLeft>>
    /\ AvatarsUnchanged

\* The setTimeout of createDeathEffect: the creator removes the record.
RemoveEffectTimeout(t) ==
    /\ Due(t, "removeEffect")
    /\ timeouts' = timeouts \ {t}
    /\ store' = [store EXCEPT !.deathEffects = Without(@, {t.id})]
    /\ client' = Notified(client, IF t.id \in DOMAIN store.deathEffects
                                  THEN {"deathEffects"} ELSE {})
    /\ event' = Idle
    /\ UNCHANGED <<pushed, leftExpired, stepsLeft>>
    /\ AvatarsUnchanged

\* The setTimeout of createDeathEffectParticles.
ParticlesTimeout(t) ==
    /\ Due(t, "particles")
    /\ timeouts' = timeouts \ {t}
    /\ client' = [client EXCEPT ![t.client].deathEffects = @ \ {t.id}]
    /\ event' = Idle
    /\ UNCHANGED <<store, pushed, leftExpired, stepsLeft>>
    /\ AvatarsUnchanged

\* The keys of a collection in the order of snapshot.val(): the first one.
FirstKey(records) ==
    CHOOSE k \in DOMAIN records : \A j \in DOMAIN records : k <= j

\* What the first callback of cleanupStaleData decides.
BecomesHost(c, players) ==
    \/ DOMAIN players = {}
    \/ Cardinality(DOMAIN players) = 1
    \/ FirstKey(players) = c

\* The three sweeps of cleanupStaleData.
Swept(st) ==
    [players |-> Without(st.players, Expired(st.players, PlayerTTL)),
     projectiles |->
         Without(st.projectiles, Expired(st.projectiles, ProjectileTTL)),
     deathEffects |->
         Without(st.deathEffects, Expired(st.deathEffects, EffectTTL))]

\* The expired records of a database.
StillExpired(st) ==
    [players |-> Expired(st.players, PlayerTTL),
     projectiles |-> Expired(st.projectiles, ProjectileTTL),
     deathEffects |-> Expired(st.deathEffects, EffectTTL)]

\* The cleanup timer of client c fires.  The listeners of c hold the
\* collections, so the callbacks of the onlyOnce reads run inside onValue,
\* before it returns.
CleanupStaleData(c) ==
    /\ c \in Running /\ Quiet /\ client[c].cleanupTimer = 0
    /\ LET host == client[c].isHost \/ BecomesHost(c, store.players)
           swept == IF host THEN Swept(store) ELSE store
           deleted == UNION {DOMAIN store[k] \ DOMAIN swept[k] : k \in Kinds}
       IN  /\ store' = swept
           /\ client' = Notified(
                  [client EXCEPT ![c].isHost = host,
                                 ![c].cleanupTimer = CleanupInterval],
                  {k \in Kinds : swept[k] # store[k]})
           /\ leftExpired' = [leftExpired EXCEPT ![c] = StillExpired(swept)]
           /\ event' = Handled("cleanupStaleData", c, deleted, {}, {})
    /\ UNCHANGED <<pushed, timeouts, stepsLeft>>
    /\ AvatarsUnchanged

----------------------------------------------------------------------------
(* MultiplayerManager: the connection and the end of a page                *)

\* The record of c once the server has run the onDisconnect request of c, if
\* it still holds one.
Disconnected(c) ==
    IF client[c].armed THEN Without(store.players, {c}) ELSE store.players

Gone == [NoManager EXCEPT !.status = "gone"]

\* The page stays and the connection of c is lost and made again: the server
\* runs the onDisconnect request, which registerPlayer made once, and the
\* listeners of c get the collections anew.  If the render loop ran
\* meanwhile, the set() of its last updatePlayerData is sent now.
Reconnect(c) ==
    /\ stepsLeft > 0 /\ stepsLeft' = stepsLeft - 1
    /\ c \in Running /\ Quiet
    /\ \E rendered \in BOOLEAN :
         /\ store' = [store EXCEPT !.players =
                         IF rendered THEN With(@, c, [age |-> 0])
                         ELSE Disconnected(c)]
         /\ leftExpired' = IF rendered THEN Refreshed(c) ELSE leftExpired
    /\ client' = Notified(
           [client EXCEPT ![c].armed = FALSE, ![c].dirty = Kinds],
           {"players"})
    /\ event' = Idle
    /\ UNCHANGED <<pushed, timeouts>>
    /\ AvatarsUnchanged

\* The page of c ends without its beforeunload handler (a crash, a killed
\* browser): only the server acts, on the lost connection.
Close(c) ==
    /\ stepsLeft > 0 /\ stepsLeft' = stepsLeft - 1
    /\ c \in Running /\ Quiet
    /\ store' = [store EXCEPT !.players = Disconnected(c)]
    /\ client' = Notified([client EXCEPT ![c] = Gone],
                          IF client[c].armed THEN {"players"} ELSE {})
    /\ timeouts' = {t \in timeouts : t.client # c}
    /\ leftExpired' = [leftExpired EXCEPT ![c] = NoneExpired]
    /\ event' = Idle
    /\ UNCHANGED pushed
    /\ AvatarsUnchanged

\* beforeunload: MultiplayerManager.dispose(), and the page ends.
Dispose(c) ==
    /\ stepsLeft > 0 /\ stepsLeft' = stepsLeft - 1
    /\ c \in Running /\ Quiet
    /\ store' = [store EXCEPT !.players = Without(@, {c})]
    /\ client' = Notified([client EXCEPT ![c] = Gone],
                          IF c \in DOMAIN store.players
                          THEN {"players"} ELSE {})
    /\ timeouts' = {t \in timeouts : t.client # c}
    /\ leftExpired' = [leftExpired EXCEPT ![c] = NoneExpired]
    /\ event' = Idle
    /\ UNCHANGED pushed
    /\ AvatarsUnchanged

----------------------------------------------------------------------------
(* The replication layer: specification                                    *)

\* An empty database and no page open.
InitNet ==
    /\ store = [players |-> <<>>, projectiles |-> <<>>, deathEffects |-> <<>>]
    /\ pushed = [projectiles |-> 0, deathEffects |-> 0]
    /\ client = [c \in Clients |-> NoManager]
    /\ timeouts = {}
    /\ event = Idle
    /\ leftExpired = [c \in Clients |-> NoneExpired]
    /\ stepsLeft = MaxNetSteps
    /\ player = NewPlayer /\ observed = <<>>
    /\ remote = <<>> /\ tick = <<>> /\ now = 0
    /\ NoParts

Listen ==
    \E c \in Clients :
        OnPlayersValue(c) \/ OnProjectilesValue(c) \/ OnDeathEffectsValue(c)

Timeout ==
    \E t \in timeouts :
        RemoveProjectileTimeout(t) \/ RemoveEffectTimeout(t)
            \/ ParticlesTimeout(t)

Cleanup == \E c \in Clients : CleanupStaleData(c)

Input ==
    \E c \in Clients :
        Join(c) \/ Shoot(c) \/ RenderFrame(c) \/ Reconnect(c) \/ Close(c)
            \/ Dispose(c)

NextNet == Input \/ Listen \/ Timeout \/ Cleanup \/ Tick

\* Time passes, and timers and listeners run when they are due; no page is
\* bound to render, shoot or stay.
SpecNet ==
    /\ InitNet /\ [][NextNet]_vars
    /\ WF_vars(Tick) /\ WF_vars(Timeout) /\ WF_vars(Cleanup) /\ WF_vars(Listen)

----------------------------------------------------------------------------
(* The replication layer: properties                                       *)

\* C5: no frame, on the owner's client or on a peer's, calls the hit callback
\* of a projectile with a body that represents the projectile's owner.
C5_NeverHitsOwner == \A h \in event.hits : h.represents # h.ownerUUID

Listeners == {"onPlayersValue", "onProjectilesValue", "onDeathEffectsValue"}

\* C8: a listener creates or updates no shadow for a record of its snapshot
\* that is older than the TTL of the collection.
C8_StaleRecordsIgnored ==
    event.op \in Listeners => event.processed \cap event.stale = {}

\* C8, witness: the players listener of a client has run on a snapshot that
\* holds the stale record of a peer whose shadow the client has.
C8_Witness ==
    /\ event.op = "onPlayersValue"
    /\ event.stale \cap client[event.client].otherPlayers # {}

\* C9: when the cleanup timer of a connected client is due, the records that
\* its run of 10 000 ms before found or left expired in the database have
\* been deleted.
C9_DeletedWithinInterval ==
    \A c \in Running :
        client[c].cleanupTimer = 0 =>
            \A k \in Kinds : leftExpired[c][k] \cap DOMAIN store[k] = {}

\* C10: the record of a player whose page is gone, and every projectile and
\* death effect record, is removed in the end, unless no client stays.
C10_EventuallyRemoved ==
    /\ \A u \in Clients :
         (u \in DOMAIN store.players /\ client[u].status = "gone")
             ~> (u \notin DOMAIN store.players \/ Running = {})
    /\ \A id \in 1..MaxShots :
         (id \in DOMAIN store.projectiles)
             ~> (id \notin DOMAIN store.projectiles \/ Running = {})
    /\ \A id \in 1..MaxEffects :
         (id \in DOMAIN store.deathEffects)
             ~> (id \notin DOMAIN store.deathEffects \/ Running = {})

\* C11: a shadow avatar whose record has not been refreshed for longer than
\* the avatar TTL is dropped from the mirror of every other client in the end.
C11_StalledAvatarDropped ==
    \A c \in Clients : \A u \in Clients :
        (/\ u \in client[c].otherPlayers
         /\ u \in DOMAIN store.players
         /\ PlayerIsStale(store.players[u].age))
            ~> (u \notin client[c].otherPlayers)

\* C12: when the players or the projectiles listener of a client has run on
\* a snapshot, empty or not, the mirror holds no key that the snapshot lacks.
C12_AbsentKeysDropped ==
    /\ event.op = "onPlayersValue" =>
           client[event.client].otherPlayers \subseteq DOMAIN store.players
    /\ event.op = "onProjectilesValue" =>
           DOMAIN client[event.client].otherProjectiles
               \subseteq DOMAIN store.projectiles

----------------------------------------------------------------------------
(* MultiplayerManager.updatePlayerData alone: the publish rate             *)

updateInterval == 33

\* Frames of the render loop in one behaviour of SpecPublish.
MaxPublishFrames == 5

\* Times, in ms, between two frames of the render loop: the same
\* millisecond, fast frames, frames around updateInterval, a slow frame.
PublishDts == {0, 1, 16, 32, 33, 50}

\* The field lastUpdateTime of a new manager; `written` lists the lastUpdate
\* of every set() of the player's record.
NewPublisher == [lastUpdateTime |-> 0, written |-> <<>>]

RateLimited_Never(lastUpdateTime, currentTime) == FALSE

\* currentTime - this.lastUpdateTime < this.updateInterval
RateLimited(lastUpdateTime, currentTime) ==
    currentTime - lastUpdateTime < updateInterval

\* updatePlayerData() at Date.now() = currentTime.  The mesh of the local
\* player has its rotationQuaternion since spawnRandomPosition.
updatePlayerData(p, currentTime) ==
    IF RateLimited(p.lastUpdateTime, currentTime) THEN p
    ELSE [lastUpdateTime |-> currentTime,
          written |-> Append(p.written, currentTime)]

OnlyPublisher ==
    UNCHANGED <<player, observed, remote, tick, netVars, projectile, sweeper,
                listener>>

\* One frame of the render loop, dt after the frame before.
PublishFrame ==
    /\ stepsLeft > 0 /\ stepsLeft' = stepsLeft - 1
    /\ \E dt \in PublishDts :
         /\ now' = now + dt
         /\ publisher' = updatePlayerData(publisher, now')
    /\ OnlyPublisher

\* The constructor of the manager has run registerPlayer.
InitPublish ==
    /\ now = StartTime
    /\ publisher = updatePlayerData(NewPublisher, StartTime)
    /\ stepsLeft = MaxPublishFrames
    /\ player = NewPlayer /\ observed = <<>>
    /\ remote = <<>> /\ tick = <<>>
    /\ store = <<>> /\ pushed = <<>> /\ client = <<>>
    /\ timeouts = {} /\ event = <<>> /\ leftExpired = <<>>
    /\ projectile = <<>> /\ sweeper = <<>> /\ listener = <<>>

NextPublish == PublishFrame

SpecPublish == InitPublish /\ [][NextPublish]_vars

\* C13: the lastUpdate stamps of two successive writes of the player's
\* record are at least updateInterval apart.
C13_WritesApart ==
    \A i \in 1..(Len(publisher.written) - 1) :
        publisher.written[i + 1] - publisher.written[i] >= updateInterval

\* C13, witness: the record has been written three times and the last frame,
\* less than updateInterval after the last write, wrote nothing.
C13_Witness ==
    /\ Len(publisher.written) >= 3
    /\ now - publisher.lastUpdateTime \in 1..(updateInterval - 1)

----------------------------------------------------------------------------
(* The replication layer: properties of the mirrors                        *)

\* C14: the mirror of a client holds no shadow avatar of the client itself
\* and no shadow projectile whose ownerUUID is the client, and the listeners
\* create or update nothing for the client's own records.
C14_OwnRecordsIgnored ==
    /\ \A c \in Running :
         /\ c \notin client[c].otherPlayers
         /\ \A id \in DOMAIN client[c].otherProjectiles :
              client[c].otherProjectiles[id].ownerUUID # c
    /\ event.op = "onPlayersValue" => event.client \notin event.processed
    /\ event.op = "onProjectilesValue" =>
           \A id \in event.processed :
               store.projectiles[id].ownerUUID # event.client

\* C14, witness: the projectiles listener of a client has run on a snapshot
\* that holds a fresh projectile of that client, its own record being in
\* the players collection.
C14_Witness ==
    /\ event.op = "onProjectilesValue"
    /\ event.client \in DOMAIN store.players
    /\ \E id \in DOMAIN store.projectiles :
         /\ store.projectiles[id].ownerUUID = event.client
         /\ ~ProjectileIsOld(store.projectiles[id].age)

\* The timer that client c has pending for record id.
Scheduled(c, kind, id, remaining) ==
    \E t \in timeouts :
        /\ t.client = c /\ t.kind = kind /\ t.id = id
        /\ t.remaining = remaining

----------------------------------------------------------------------------
(* Projectile (Projectile.ts) alone                                        *)

\* Calls of update() and dispose() in one behaviour of SpecProjectile.
MaxProjectileSteps == 4

\* Times, in ms, between two calls of update(): a frame, and longer pauses.
UpdateDts == {16, 400, 10 ^ 3}

\* ownerUUID of the projectile.
OwnerUUID == 1

\* scene.meshes, in the order of the scene: the planet, the player who
\* fired, the meshes of two other players, and the projectile's own plane.
\* playerUUID is metadata.playerUUID, 0 for a mesh without metadata.
SceneMeshes ==
    << [name |-> "planet", playerUUID |-> 0],
       [name |-> "player", playerUUID |-> OwnerUUID],
       [name |-> "player", playerUUID |-> 2],
       [name |-> "player", playerUUID |-> 3],
       [name |-> "projectile", playerUUID |-> 0] >>

\* The index in scene.meshes of this.mesh.
OwnMesh == 5

NoMesh == 0

\* What a call leaves for the properties to read.
NoCall ==
    [op |-> "none", wasActive |-> TRUE, returned |-> TRUE, moved |-> FALSE,
     called |-> NoMesh, first |-> NoMesh]

\* new Projectile(...) at Date.now() = time.  `moves` counts the assignments
\* of mesh.position, `calls` lists the arguments of onHit, by index.
NewProjectile(time) ==
    [isActive |-> TRUE, spawnTime |-> time, moves |-> 0, calls |-> <<>>,
     retiredBy |-> "none", last |-> NoCall]

projectileDispose_StaysActive(p, by) == p

\* Projectile.dispose(), called by `by`.
projectileDispose(p, by) ==
    [p EXCEPT !.isActive = FALSE,
              !.retiredBy = IF p.isActive THEN by ELSE @]

\* The filter of update(): mesh i qualifies as a hit when it intersects the
\* projectile (`touching` holds the meshes that do).
Qualifies(i, touching) ==
    /\ SceneMeshes[i].name = "player" /\ i # OwnMesh
    /\ ~(SceneMeshes[i].playerUUID # 0
             /\ SceneMeshes[i].playerUUID = OwnerUUID)
    /\ i \in touching

\* hits[0], or NoMesh when hits is empty.
FirstHit(touching) ==
    LET hits == {i \in DOMAIN SceneMeshes : Qualifies(i, touching)}
    IN  IF hits = {} THEN NoMesh
        ELSE CHOOSE i \in hits : \A j \in hits : i <= j

\* Projectile.update() at Date.now() = time.
projectileUpdate(p, time, touching) ==
    LET seen == [NoCall EXCEPT !.op = "update", !.wasActive = p.isActive,
                               !.first = FirstHit(touching)]
    IN  IF ~p.isActive
        THEN [p EXCEPT !.last = [seen EXCEPT !.returned = FALSE]]
        ELSE IF time - p.spawnTime > lifespan
        THEN [projectileDispose(p, "lifespan") EXCEPT
                 !.last = [seen EXCEPT !.returned = FALSE]]
        ELSE IF FirstHit(touching) # NoMesh
        THEN [projectileDispose(
                  [p EXCEPT !.moves = @ + 1,
                            !.calls = Append(@, FirstHit(touching))],
                  "hit") EXCEPT
                 !.last = [seen EXCEPT !.returned = FALSE, !.moved = TRUE,
                                       !.called = FirstHit(touching)]]
        ELSE [p EXCEPT !.moves = @ + 1,
                       !.last = [seen EXCEPT !.moved = TRUE]]

OnlyProjectile ==
    UNCHANGED <<player, observed, remote, tick, netVars, publisher, sweeper,
                listener>>

\* A frame calls update(), dt after the call before.
UpdateProjectile ==
    /\ stepsLeft > 0 /\ stepsLeft' = stepsLeft - 1
    /\ \E dt \in UpdateDts, touching \in SUBSET DOMAIN SceneMeshes :
         /\ now' = now + dt
         /\ projectile' = projectileUpdate(projectile, now', touching)
    /\ OnlyProjectile

\* The holder of the projectile calls dispose(): the projectiles listener for
\* a record that is gone, Player.dispose, MultiplayerManager.dispose.
DisposeProjectile ==
    /\ stepsLeft > 0 /\ stepsLeft' = stepsLeft - 1
    /\ projectile' =
         [projectileDispose(projectile, "holder") EXCEPT
             !.last = [NoCall EXCEPT !.op = "dispose",
                                     !.wasActive = projectile.isActive]]
    /\ UNCHANGED now
    /\ OnlyProjectile

InitProjectile ==
    /\ now = StartTime
    /\ projectile = NewProjectile(StartTime)
    /\ stepsLeft = MaxProjectileSteps
    /\ player = NewPlayer /\ observed = <<>>
    /\ remote = <<>> /\ tick = <<>>
    /\ store = <<>> /\ pushed = <<>> /\ client = <<>>
    /\ timeouts = {} /\ event = <<>> /\ leftExpired = <<>>
    /\ publisher = <<>> /\ sweeper = <<>> /\ listener = <<>>

NextProjectile == UpdateProjectile \/ DisposeProjectile

SpecProjectile == InitProjectile /\ [][NextProjectile]_vars

\* C16: onHit is called at most once in the life of a projectile; a call of
\* update() that reports a hit reports the first qualifying mesh of the scene
\* and retires the projectile; an update() of a retired projectile returns
\* false, moves nothing and calls nothing.
C16_HitsAtMostOnce ==
    /\ Len(projectile.calls) <= 1
    /\ projectile.last.op = "update" =>
         /\ projectile.last.called # NoMesh =>
              /\ projectile.last.called = projectile.last.first
              /\ ~projectile.isActive /\ ~projectile.last.returned
         /\ ~projectile.last.wasActive =>
              /\ ~projectile.last.returned /\ ~projectile.last.moved
              /\ projectile.last.called = NoMesh

\* C16, witness: a projectile retired by a hit has been updated again while
\* a qualifying mesh intersected it.
C16_Witness ==
    /\ projectile.retiredBy = "hit"
    /\ projectile.last.op = "update" /\ ~projectile.last.wasActive
    /\ projectile.last.first # NoMesh

\* C17: after an update() of a projectile that has hit nothing and that its
\* holder has not disposed, the projectile is active exactly when at most
\* 2 000 ms, the TTL of its record, have passed since its creation.
C17_LifespanIsTTL ==
    (/\ projectile.last.op = "update"
     /\ projectile.retiredBy \in {"none", "lifespan"})
        => (projectile.isActive <=>
                now - projectile.spawnTime <= ProjectileTTL)

----------------------------------------------------------------------------
(* The replication layer: properties of the sweep                          *)

\* Client c is the only participant, or its identity sorts first among the
\* participants.
SortsFirst(c, players) == \A u \in DOMAIN players : c <= u

\* C18: a participant whose cleanupStaleData has just got past the host
\* test, and so has deleted what was expired, is the only participant or
\* sorts first among the participants whose records the sweep has left.
C18_SweeperIsLeader ==
    (/\ event.op = "cleanupStaleData"
     /\ client[event.client].isHost
     /\ event.client \in DOMAIN store.players)
        => SortsFirst(event.client, store.players)

----------------------------------------------------------------------------
(* cleanupStaleData and updatePlayerData against the server: the writes    *)
(* under way                                                               *)

\* Sweeps and publishes in one behaviour of SpecSweep.
MaxSweepSteps == 4

\* The update() calls of the sweeps that the server has not applied yet:
\* from is the sweeping client, keys the records it marked with null.
NoSweeper(hosts) ==
    [players |-> [u \in Clients |-> [age |-> 0]], hosts |-> hosts,
     sent |-> {}, removed |-> {}]

\* The `updates` object of the players sweep: a null for every record with
\* currentTime - lastUpdate > 10000.
SweepUpdates(players) == Expired(players, PlayerTTL)

\* What update(playersRef, updates) does to the collection when the server
\* applies it.
ApplyUpdates(players, keys) == Without(players, keys)

OnlySweeper ==
    UNCHANGED <<player, observed, remote, tick, now, netVars, publisher,
                projectile, listener>>

\* cleanupStaleData of host c reads the players collection and sends its
\* update(); the update() of its run before has been applied.
SweepPlayers(c) ==
    /\ stepsLeft > 0 /\ stepsLeft' = stepsLeft - 1
    /\ c \in sweeper.hosts
    /\ \A m \in sweeper.sent : m.from # c
    /\ LET keys == SweepUpdates(sweeper.players)
       IN  sweeper' = [sweeper EXCEPT
               !.sent = IF keys = {} THEN @
                        ELSE @ \cup {[from |-> c, keys |-> keys]},
               !.removed = {}]
    /\ OnlySweeper

\* The server applies an update() of a sweep.
ServerApplies(m) ==
    /\ m \in sweeper.sent
    /\ sweeper' = [sweeper EXCEPT
           !.players = ApplyUpdates(@, m.keys),
           !.sent = @ \ {m},
           !.removed = {[key |-> k, age |-> sweeper.players[k].age] :
                           k \in m.keys \cap DOMAIN sweeper.players}]
    /\ UNCHANGED stepsLeft
    /\ OnlySweeper

\* updatePlayerData of client u, after a pause of its render loop or not:
\* the server applies the set() of its record.
PublishSelf(u) ==
    /\ stepsLeft > 0 /\ stepsLeft' = stepsLeft - 1
    /\ sweeper' = [sweeper EXCEPT !.players = With(@, u, [age |-> 0]),
                                  !.removed = {}]
    /\ OnlySweeper

\* Two seconds pass.
SweepTick ==
    /\ \E u \in DOMAIN sweeper.players : sweeper.players[u].age < AgeCap
    /\ sweeper' = [sweeper EXCEPT !.players = Older(@), !.removed = {}]
    /\ UNCHANGED stepsLeft
    /\ OnlySweeper

\* Both clients connected and published; one of them is host, or both.
InitSweep ==
    /\ \E hosts \in SUBSET Clients :
         hosts # {} /\ sweeper = NoSweeper(hosts)
    /\ stepsLeft = MaxSweepSteps
    /\ player = NewPlayer /\ observed = <<>>
    /\ remote = <<>> /\ tick = <<>> /\ now = 0
    /\ store = <<>> /\ pushed = <<>> /\ client = <<>>
    /\ timeouts = {} /\ event = <<>> /\ leftExpired = <<>>
    /\ publisher = <<>> /\ projectile = <<>> /\ listener = <<>>

NextSweep ==
    \/ \E c \in Clients : SweepPlayers(c) \/ PublishSelf(c)
    \/ \E m \in sweeper.sent : ServerApplies(m)
    \/ SweepTick

SpecSweep == InitSweep /\ [][NextSweep]_vars

\* C19: every record that the update() of a sweep removes is older than the
\* TTL at the moment the server applies the removal.
C19_DeletesOnlyExpired ==
    \A r \in sweeper.removed : r.age > PlayerTTL

----------------------------------------------------------------------------
(* The callback of setupPlayerListeners on records with missing fields     *)

\* Snapshots delivered in one behaviour of SpecSnapshot.
MaxSnapshots == 2

\* The uuid of the local player, and the uuids that records may have.
LocalUUID == 1

SnapshotUUIDs == 1..3

\* The records a snapshot may hold: complete and fresh, complete and stale,
\* fresh without rotation, fresh without position.
RecordShapes ==
    { [age |-> 0, position |-> TRUE, rotation |-> TRUE],
      [age |-> PlayerTTL + 1, position |-> TRUE, rotation |-> TRUE],
      [age |-> 0, position |-> TRUE, rotation |-> FALSE],
      [age |-> 0, position |-> FALSE, rotation |-> TRUE] }

Snapshots ==
    UNION {[keys -> RecordShapes] : keys \in SUBSET SnapshotUUIDs}

\* updateRemotePlayer reads playerData.position.x and playerData.rotation.x
\* before it applies anything: a TypeError when either object is missing.
Throws(playerData) == ~playerData.position \/ ~playerData.rotation

\* The keys of a snapshot from `from` on, in the order of Object.entries.
RECURSIVE KeysFrom(_, _)
KeysFrom(keys, from) ==
    IF \A k \in keys : k < from THEN <<>>
    ELSE IF from \in keys THEN <<from>> \o KeysFrom(keys, from + 1)
    ELSE KeysFrom(keys, from + 1)

\* The forEach over Object.entries(players), entry by entry, until an entry
\* throws: l holds otherPlayers, the shadows updated, and whether the
\* callback has thrown.
RECURSIVE ForEachPlayer(_, _, _)
ForEachPlayer(l, entries, players) ==
    IF entries = <<>> THEN l
    ELSE LET uuid == Head(entries)
             playerData == players[uuid]
         IN  IF uuid = LocalUUID \/ PlayerIsStale(playerData.age)
             THEN ForEachPlayer(l, Tail(entries), players)
             ELSE LET made == [l EXCEPT !.otherPlayers = @ \cup {uuid}]
                  IN  IF Throws(playerData)
                      THEN [made EXCEPT !.threw = TRUE]
                      ELSE ForEachPlayer(
                               [made EXCEPT !.updated = @ \cup {uuid}],
                               Tail(entries), players)

\* The callback of setupPlayerListeners on the snapshot `players`.
onPlayersSnapshot(otherPlayers, players) ==
    LET start == [otherPlayers |-> otherPlayers, updated |-> {},
                  threw |-> FALSE, disposed |-> {}, snapshot |-> players,
                  ran |-> TRUE]
    IN  IF DOMAIN players = {} THEN start
        ELSE LET l == ForEachPlayer(start, KeysFrom(DOMAIN players, 1),
                                    players)
                 left == l.otherPlayers \ DOMAIN players
             IN  IF l.threw THEN l
                 ELSE [l EXCEPT !.otherPlayers = @ \ left,
                                !.disposed = left]

OnlyListener ==
    UNCHANGED <<player, observed, remote, tick, now, netVars, publisher,
                projectile, sweeper>>

\* The listener gets a snapshot.
OnSnapshot ==
    /\ stepsLeft > 0 /\ stepsLeft' = stepsLeft - 1
    /\ \E players \in Snapshots :
         listener' = onPlayersSnapshot(listener.otherPlayers, players)
    /\ OnlyListener

InitSnapshot ==
    /\ listener = [otherPlayers |-> {}, updated |-> {}, threw |-> FALSE,
                   disposed |-> {}, snapshot |-> <<>>, ran |-> FALSE]
    /\ stepsLeft = MaxSnapshots
    /\ player = NewPlayer /\ observed = <<>>
    /\ remote = <<>> /\ tick = <<>> /\ now = 0
    /\ store = <<>> /\ pushed = <<>> /\ client = <<>>
    /\ timeouts = {} /\ event = <<>> /\ leftExpired = <<>>
    /\ publisher = <<>> /\ projectile = <<>> /\ sweeper = <<>>

NextSnapshot == OnSnapshot

SpecSnapshot == InitSnapshot /\ [][NextSnapshot]_vars

\* The records of a snapshot that are another player's, fresh and complete.
WellFormed(players) ==
    {u \in DOMAIN players :
        /\ u # LocalUUID /\ ~PlayerIsStale(players[u].age)
        /\ players[u].position /\ players[u].rotation}

\* C20: on a snapshot that holds records with a missing field, the callback
\* throws nothing, updates the shadows of exactly the other, well-formed
\* records, and its departure loop leaves no shadow whose key the snapshot
\* lacks.
C20_MalformedRecordSkipped ==
    (listener.ran /\ DOMAIN listener.snapshot # {}) =>
        /\ ~listener.threw
        /\ listener.updated = WellFormed(listener.snapshot)
        /\ listener.otherPlayers \subseteq DOMAIN listener.snapshot

----------------------------------------------------------------------------
(* The render loop (index.ts) on the local avatar                          *)

\* Frames of the render loop in one behaviour of SpecLoop.
MaxLoopFrames == 2

\* Frame times, in ms: a frame at 60 fps and a stall of one second.
LoopDts == {16, 10 ^ 3}

\* The movement keys held during a frame, and the mouse movement since the
\* frame before, as the angle handed to rotate() in 1/1000 rad.
KeysPressed == {{}, {"w"}, {"a"}}

MouseTurns == {0, 300}

\* The fields of the thrust controller and of the vertical integrator.
ThrustState(p) ==
    [fuel |-> p.fuel, hasFuel |-> p.hasFuel,
     verticalVelocity |-> p.verticalVelocity,
     heightAboveSurface |-> p.heightAboveSurface]

\* handlePlayerMovement(deltaTime): the space bar, updatePhysics, the
\* movement keys and the mouse.
handlePlayerMovement(p, space, keys, mouse, dt) ==
    LET jet == IF space THEN activateJetpack(p) ELSE deactivateJetpack(p)
        ticked == updatePhysics(jet, dt)
        a == IF "a" \in keys
             THEN moveAlongOrbit(ticked, VScale(ticked.right, -1, 1), dt)
             ELSE ticked
        w == IF "w" \in keys THEN moveAlongOrbit(a, a.forward, dt) ELSE a
    IN  IF mouse # 0 THEN rotate(w, mouse) ELSE w

\* Player.update(deltaTime) of a local player.
playerUpdate(p, dt) == updatePhysics(p, dt)

\* One iteration of the render loop: handlePlayerMovement(deltaTime), then
\* player.update(deltaTime).  `once` is the avatar with the space bar applied
\* and one physics tick of this frame's deltaTime.
RenderLoop ==
    /\ stepsLeft > 0 /\ stepsLeft' = stepsLeft - 1
    /\ \E space \in BOOLEAN, keys \in KeysPressed, mouse \in MouseTurns,
          dt \in LoopDts :
         LET jet == IF space THEN activateJetpack(player)
                    ELSE deactivateJetpack(player)
         IN  /\ player' = playerUpdate(
                    handlePlayerMovement(player, space, keys, mouse, dt), dt)
             /\ observed' = [op |-> "frame", dt |-> dt,
                             before |-> ThrustState(player),
                             once |-> ThrustState(updatePhysics(jet, dt))]
    /\ UNCHANGED <<remote, tick, now, netVars, partVars>>

InitLoop == InitPlayer /\ stepsLeft = MaxLoopFrames /\ NoRemote

NextLoop == RenderLoop

SpecLoop == InitLoop /\ [][NextLoop]_vars

\* C21: after an iteration of the render loop, fuel, hasFuel,
\* verticalVelocity and heightAboveSurface are what one physics tick with the
\* frame's dt makes of their values before the iteration.
C21_AdvancedOncePerFrame ==
    observed.op = "frame" => ThrustState(player) = observed.once

----------------------------------------------------------------------------
(* The remote avatar: the velocity estimates of setRemotePosition           *)

\* scale(0.7).add(velocity.scale(0.3)).
Blend(old, new) == VAdd(VScale(old, 7, 10), VScale(new, 3, 10))

\* The finite difference of the heights of two successive samples over the
\* time between their arrivals, in 1/1000 unit per second.
HeightRate(w, r) ==
    RDiv((r.targetHeight - w.targetHeight) * S,
         Max(16, r.lastRemotePositionUpdate - w.lastRemotePositionUpdate))

\* A sample has just been ingested by an avatar that had a sample and a
\* velocity estimate before, and it differs from the sample before it.
IngestedNewSample ==
    /\ tick.op = "setRemotePosition"
    /\ tick.was.targetPosition # Null
    /\ tick.was.estimatedVelocity # Null
    /\ remote.targetPosition # tick.was.targetPosition

\* C22: after setRemotePosition has ingested a sample, estimatedVelocity is
\* the blend 0.7 old / 0.3 new of the estimate before and the difference
\* between the new sample and the sample received just before it, and
\* estimatedVerticalVelocity is the same blend of the estimate before and the
\* height difference of these two samples over the time between them.
C22_BlendOfLastTwoSamples ==
    IngestedNewSample =>
        /\ remote.estimatedVelocity =
               Blend(tick.was.estimatedVelocity,
                     VSub(remote.targetPosition, tick.was.targetPosition))
        /\ remote.estimatedVerticalVelocity =
               RDiv(7 * tick.was.estimatedVerticalVelocity
                        + 3 * HeightRate(tick.was, remote), 10)


\* C25: ingesting a sample identical to the current target leaves
\* targetPosition, targetHeight, estimatedVelocity and
\* estimatedVerticalVelocity as they were.
C25_DuplicateSampleIgnored ==
    (tick.op = "setRemotePosition"
     /\ tick.was.targetPosition = remote.targetPosition) =>
        /\ remote.targetHeight = tick.was.targetHeight
        /\ remote.estimatedVelocity = tick.was.estimatedVelocity
        /\ remote.estimatedVerticalVelocity =
               tick.was.estimatedVerticalVelocity


----------------------------------------------------------------------------
(* The local avatar: the orientation after a movement step                  *)

MoveOps == {"moveForward", "moveBackward", "strafeLeft", "strafeRight"}

\* What rounding can add to a component sum of unit vectors: 0.01.
BasisTolerance == S \div 100

\* right, up and forward have length 1 and are perpendicular to each other.
Orthonormal(p) ==
    /\ Abs(Length(p.right) - S) <= BasisTolerance
    /\ Abs(Length(p.up) - S) <= BasisTolerance
    /\ Abs(Length(p.forward) - S) <= BasisTolerance
    /\ Abs(Dot(p.right, p.up)) <= BasisTolerance
    /\ Abs(Dot(p.forward, p.up)) <= BasisTolerance
    /\ Abs(Dot(p.right, p.forward)) <= BasisTolerance

\* The up axis is the unit vector from the planet centre to the position.
UpIsRadial(p) ==
    Length(VSub(p.up, Normalize(p.position))) <= BasisTolerance

\* C23: after a movement step the orientation is an orthonormal basis whose
\* up axis is the outward radial at the new position of the avatar.
C23_UpRadialAfterMove ==
    observed.op \in MoveOps => Orthonormal(player) /\ UpIsRadial(player)


----------------------------------------------------------------------------
(* The local avatar: hasFuel and the fuel level                             *)

\* C26: in every state of the local avatar, hasFuel = false implies that the
\* fuel is below 10% of MAX_FUEL.
C26_NoFuelMeansLow == ~player.hasFuel => player.fuel < FuelRestoreLevel

\* The avatar ran dry, has refilled for a while and is still under the
\* threshold without thrust.
C26_Witness ==
    /\ ~player.hasFuel /\ player.fuel > 0
    /\ observed.op = "updatePhysics" /\ ~player.jetpackActive


----------------------------------------------------------------------------
(* A projectile in flight: the owner's copy and a peer's shadow copy        *)

\* Frames of the render loop in one behaviour of SpecFlight.
MaxFlightFrames == 34

\* Frame times, in ms: 120 and 60 frames per second.
FlightDts == {8, 16}

\* Projectile.speed
speed == 1

\* The move of update() (Projectile.ts 100-111): the position rotated by
\* speed * 0.016 rad around Cross(startDirection, toPlanetCenter).
orbitStep(position, startDirection) ==
    LET toPlanetCenter == Normalize(VSub(Zero, position))
        orbitDirection == Normalize(Cross(startDirection, toPlanetCenter))
        rotationMatrix == RotationAxis(orbitDirection, speed * 16)
    IN  Transform(position, rotationMatrix)

\* The sense in which a step from a to b turns around axis: positive,
\* negative, or 0 for no turn.
Sense(a, b, axis) == Dot(Cross(a, b), axis)

\* The normal of the great circle the projectile starts on, oriented by its
\* first step.
GreatCircleAxis(position, direction) ==
    Normalize(Cross(position, orbitStep(position, direction)))

\* new Projectile(scene, position, direction, ...) at Date.now() = time.
\* `spawnRadius`, `axis` and `reversals` are for the properties: the distance
\* from the centre at the spawn, the axis of the first step, and the number of
\* steps that turned against it.
NewFlight(position, direction, time) ==
    [body |-> NewProjectile(time), position |-> position,
     startDirection |-> direction, spawnRadius |-> Length(position),
     axis |-> GreatCircleAxis(position, direction), reversals |-> 0]

\* Projectile.update() at Date.now() = time, with no player mesh in reach.
flightUpdate(f, time) ==
    LET u  == projectileUpdate(f.body, time, {})
        to == IF u.last.moved THEN orbitStep(f.position, f.startDirection)
              ELSE f.position
    IN  [f EXCEPT !.body = u, !.position = to,
                  !.reversals =
                      IF u.last.moved /\ Sense(f.position, to, f.axis) <= 0
                      THEN @ + 1 ELSE @]

\* The owner's frame: handlePlayerMovement calls updatePhysics, Player.update
\* calls updatePhysics, and each updatePhysics filters this.projectiles with
\* update(); Player.update then filters them once more.
ownerFrame(f, time) == flightUpdate(flightUpdate(flightUpdate(f, time), time), time)

\* The peer's frame: updateRemotePlayers calls update() of each shadow.
shadowFrame(f, time) == flightUpdate(f, time)

\* Player.shoot(): the spawn position and the direction of the projectile,
\* which addProjectile writes to the record and the peer's listener reads.
shoot(p) == <<VAdd(p.position, VScale(p.forward, 1, 2)), p.forward>>

OnlyFlight ==
    UNCHANGED <<player, observed, remote, tick, netVars, publisher, sweeper,
                listener>>

\* One frame of the render loop on the owner's client and on the peer's.
FlightFrame ==
    /\ stepsLeft > 0 /\ stepsLeft' = stepsLeft - 1
    /\ \E dt \in FlightDts :
         /\ now' = now + dt
         /\ projectile' =
              [owner |-> ownerFrame(projectile.owner, now'),
               shadow |-> shadowFrame(projectile.shadow, now'),
               frames |-> projectile.frames + 1]
    /\ OnlyFlight

\* The avatar has spawned and turned, and shoots; the record reaches the peer
\* before the next frame.
InitFlight ==
    /\ now = StartTime
    /\ \E a \in SpawnAngles, turn \in TurnAngles :
         /\ player = rotate(spawnRandomPosition(NewPlayer, a[1], a[2]), turn)
         /\ projectile =
              [owner |-> NewFlight(shoot(player)[1], shoot(player)[2], now),
               shadow |-> NewFlight(shoot(player)[1], shoot(player)[2], now),
               frames |-> 0]
    /\ stepsLeft = MaxFlightFrames
    /\ observed = <<>> /\ remote = <<>> /\ tick = <<>>
    /\ store = <<>> /\ pushed = <<>> /\ client = <<>>
    /\ timeouts = {} /\ event = <<>> /\ leftExpired = <<>>
    /\ publisher = <<>> /\ sweeper = <<>> /\ listener = <<>>

NextFlight == FlightFrame

SpecFlight == InitFlight /\ [][NextFlight]_vars

\* C29: each active projectile is advanced by one angular step per frame, so
\* after the same number of frames the owner's copy and the peer's shadow
\* copy have made the same number of steps.
C29_OneStepPerFrame ==
    /\ projectile.owner.body.isActive =>
           projectile.owner.body.moves = projectile.frames
    /\ projectile.shadow.body.isActive =>
           projectile.shadow.body.moves = projectile.frames

\* What rounding adds to the distance from the centre over the steps of one
\* lifespan: 0.2 unit.
RadiusDrift == S \div 5

\* C30: during its lifespan no step of a projectile turns against the sense
\* of its first step, and its distance from the planet centre stays the one
\* it was spawned at.
C30_NeverReverses ==
    \A f \in {projectile.owner, projectile.shadow} :
        /\ f.reversals = 0
        /\ Abs(Length(f.position) - f.spawnRadius) <= RadiusDrift


----------------------------------------------------------------------------
(* A shadow projectile in the mirror of a peer                              *)

\* Frames, snapshots and timers in one behaviour of SpecMirror.
MaxMirrorSteps == 5

\* The mesh of the local player of the peer, in scene.meshes.
PeerMesh == 3

\* The projectiles collection and the mirror of one peer, for the record of
\* one projectile written at StartTime: whether the record is in the store,
\* whether the collection holds another record, whether otherProjectiles has
\* the id and the Projectile it maps to, isHost, and for the properties the
\* number of dispose() calls on the shadow, the number of remove() calls for
\* its record, and the handler that ran last.
NewMirror(others, host) ==
    [record |-> TRUE, others |-> others, has |-> FALSE,
     body |-> NewProjectile(StartTime), isHost |-> host,
     disposes |-> 0, removes |-> 0, last |-> "none"]

\* The callback of setupProjectileListeners at Date.now() = time.
setupProjectileListeners(m, time) ==
    IF ~(m.record \/ m.others) THEN [m EXCEPT !.last = "listener"]
    ELSE
    LET made == m.record /\ ~ProjectileIsOld(time - StartTime) /\ ~m.has
        left == m.has /\ ~m.record
    IN  [m EXCEPT !.has = (m.has \/ made) /\ ~left,
                  !.body = IF made THEN NewProjectile(time)
                           ELSE IF left THEN projectileDispose(@, "holder")
                           ELSE @,
                  !.disposes = IF left THEN @ + 1 ELSE @,
                  !.last = "listener"]

\* The loop of updateRemotePlayers over otherProjectiles at Date.now() =
\* time: update(), and when it returns false dispose() and, on a host,
\* remove() of the record.  update() calls dispose() itself where it retires
\* the projectile.
updateRemotePlayers(m, time, touching) ==
    IF ~m.has THEN [m EXCEPT !.last = "frame"]
    ELSE
    LET u == projectileUpdate(m.body, time, touching)
        retiring == m.body.isActive /\ ~u.isActive
    IN  IF u.last.returned
        THEN [m EXCEPT !.body = u, !.last = "frame"]
        ELSE [m EXCEPT !.body = projectileDispose(u, "holder"),
                       !.disposes = @ + 1 + (IF retiring THEN 1 ELSE 0),
                       !.removes = IF m.isHost THEN @ + 1 ELSE @,
                       !.record = IF m.isHost THEN FALSE ELSE @,
                       !.last = "frame"]

\* A frame of the render loop of the peer.
MirrorFrame ==
    /\ stepsLeft > 0 /\ stepsLeft' = stepsLeft - 1
    /\ \E dt \in UpdateDts, touching \in {{}, {PeerMesh}} :
         /\ now' = now + dt
         /\ projectile' = updateRemotePlayers(projectile, now', touching)
    /\ OnlyProjectile

\* The projectiles listener of the peer gets the collection: after a change
\* of the record, or of another record.
MirrorSnapshot ==
    /\ stepsLeft > 0 /\ stepsLeft' = stepsLeft - 1
    /\ projectile' = setupProjectileListeners(projectile, now)
    /\ UNCHANGED now
    /\ OnlyProjectile

\* The setTimeout of addProjectile on the owner's client removes the record.
MirrorRecordRemoved ==
    /\ stepsLeft > 0 /\ stepsLeft' = stepsLeft - 1
    /\ projectile.record /\ now - StartTime >= ProjectileRemoveDelay
    /\ projectile' = [projectile EXCEPT !.record = FALSE, !.last = "timer"]
    /\ UNCHANGED now
    /\ OnlyProjectile

InitMirror ==
    /\ now = StartTime
    /\ \E others \in BOOLEAN, host \in BOOLEAN :
         projectile = NewMirror(others, host)
    /\ stepsLeft = MaxMirrorSteps
    /\ player = NewPlayer /\ observed = <<>>
    /\ remote = <<>> /\ tick = <<>>
    /\ store = <<>> /\ pushed = <<>> /\ client = <<>>
    /\ timeouts = {} /\ event = <<>> /\ leftExpired = <<>>
    /\ publisher = <<>> /\ sweeper = <<>> /\ listener = <<>>

NextMirror == MirrorFrame \/ MirrorSnapshot \/ MirrorRecordRemoved

SpecMirror == InitMirror /\ [][NextMirror]_vars

\* C27: the frame that finds a shadow projectile retired takes it out of the
\* mirror; dispose() runs at most once on a shadow, and a host calls remove()
\* at most once for its record.
C27_RetiredShadowDropped ==
    /\ projectile.last = "frame" =>
           ~(projectile.has /\ ~projectile.body.isActive)
    /\ projectile.disposes <= 1
    /\ projectile.removes <= 1


----------------------------------------------------------------------------
(* MultiplayerManager.dispose() and the handlers that run after it          *)

\* Frames, snapshots and dispose() in one behaviour of SpecUnload.
MaxUnloadSteps == 4

\* The uuid of the client whose manager is disposed, and of its peer.
Leaver == 1

Peer == 2

\* The collections while the peer plays: its fresh avatar record, a
\* projectile it has just shot and the effect of a death it has just
\* written, with the avatar record of the leaver or without it.
PeerStore(own) ==
    [players |-> IF own THEN (Peer :> [age |-> 0]) @@ (Leaver :> [age |-> 0])
                 ELSE (Peer :> [age |-> 0]),
     projectiles |-> (1 :> [ownerUUID |-> Peer, age |-> 0]),
     deathEffects |-> (1 :> [age |-> 0, writer |-> Peer])]

\* The manager of the leaver after its constructor: the maps, the rate
\* limiter of updatePlayerData after registerPlayer, and for the properties
\* whether dispose() has been called and whether the avatar record of the
\* leaver is in the store.
NewManager ==
    [maps |-> [NoManager EXCEPT !.status = "running"],
     limiter |-> updatePlayerData(NewPublisher, StartTime),
     disposed |-> FALSE, recorded |-> TRUE, last |-> "none"]

\* MultiplayerManager.dispose(): clearInterval, remove() of the own avatar
\* record, and the three maps disposed and cleared.
managerDispose(m) ==
    [m EXCEPT !.maps = [@ EXCEPT !.otherPlayers = {},
                                 !.otherProjectiles = <<>>,
                                 !.deathEffects = {},
                                 !.cleanupTimer = 0],
              !.recorded = FALSE, !.disposed = TRUE, !.last = "dispose"]

\* The part of a frame of the render loop that the manager takes:
\* updatePlayerData() at Date.now() = time (updateRemotePlayers adds and
\* removes no entry of a map).
managerFrame(m, time) ==
    LET after == updatePlayerData(m.limiter, time)
    IN  [m EXCEPT !.limiter = after,
                  !.recorded = @ \/ after # m.limiter,
                  !.last = "frame"]

\* The callback of the listener of one collection on the store as it is.
managerSnapshot(m, kind) ==
    LET st == PeerStore(m.recorded)
    IN  [m EXCEPT !.maps =
             IF kind = "players"
             THEN onPlayersValue(@, Leaver, st.players)
             ELSE IF kind = "projectiles"
             THEN onProjectilesValue(@, Leaver, st.projectiles)
             ELSE onDeathEffectsValue(@, st.deathEffects),
                  !.last = kind]

OnlyManager ==
    UNCHANGED <<player, observed, remote, tick, netVars, projectile, sweeper,
                listener>>

\* beforeunload: the handler of index.ts calls dispose().
UnloadDispose ==
    /\ stepsLeft > 0 /\ stepsLeft' = stepsLeft - 1
    /\ ~publisher.disposed
    /\ publisher' = managerDispose(publisher)
    /\ UNCHANGED now
    /\ OnlyManager

\* A frame of the render loop, before dispose() or after it.
UnloadFrame ==
    /\ stepsLeft > 0 /\ stepsLeft' = stepsLeft - 1
    /\ \E dt \in PublishDts :
         /\ now' = now + dt
         /\ publisher' = managerFrame(publisher, now')
    /\ OnlyManager

\* A snapshot of one collection reaches its listener, before dispose() or
\* after it.
UnloadSnapshot ==
    /\ stepsLeft > 0 /\ stepsLeft' = stepsLeft - 1
    /\ \E kind \in Kinds : publisher' = managerSnapshot(publisher, kind)
    /\ UNCHANGED now
    /\ OnlyManager

InitUnload ==
    /\ now = StartTime
    /\ publisher = NewManager
    /\ stepsLeft = MaxUnloadSteps
    /\ player = NewPlayer /\ observed = <<>>
    /\ remote = <<>> /\ tick = <<>>
    /\ store = <<>> /\ pushed = <<>> /\ client = <<>>
    /\ timeouts = {} /\ event = <<>> /\ leftExpired = <<>>
    /\ projectile = <<>> /\ sweeper = <<>> /\ listener = <<>>

NextUnload == UnloadDispose \/ UnloadFrame \/ UnloadSnapshot

SpecUnload == InitUnload /\ [][NextUnload]_vars

\* C28: once dispose() has been called, the avatar record of the client is
\* not in the store again and its three mirrors are empty, whatever frames
\* and snapshot callbacks run afterwards.
C28_NothingAfterDispose ==
    publisher.disposed =>
        /\ ~publisher.recorded
        /\ publisher.maps.otherPlayers = {}
        /\ publisher.maps.otherProjectiles = <<>>
        /\ publisher.maps.deathEffects = {}


----------------------------------------------------------------------------
(* The replication layer: who deletes what                                 *)

\* The keys of a collection that a step deletes.
Deleted(kind) == DOMAIN store[kind] \ DOMAIN store'[kind]

\* The step is one of client c: a frame, a sweep or a listener of c, a timer
\* of c that was due, the end of the page of c, or the loss of its
\* connection.
Acts(c) ==
    \/ event'.op # "none" /\ event'.client = c
    \/ \E t \in timeouts \ timeouts' : t.client = c /\ t.remaining = 0
    \/ client[c].status = "running" /\ client'[c].status = "gone"
    \/ client[c].armed /\ ~client'[c].armed

\* C24: a step of a client that does not consider itself leader, before the
\* step or after it, deletes no record but the client's own avatar record and
\* the projectile and effect records that the client wrote.
C24_NonLeaderDeletesOwn ==
    [][\A c \in Clients :
          (Acts(c) /\ ~client[c].isHost /\ ~client'[c].isHost) =>
              /\ Deleted("players") \subseteq {c}
              /\ \A id \in Deleted("projectiles") :
                     store.projectiles[id].ownerUUID = c
              /\ \A id \in Deleted("deathEffects") :
                     store.deathEffects[id].writer = c]_vars

\* A client that is not host has just rendered a frame in which a shadow
\* projectile was retired, and the record of the projectile, which a peer
\* wrote, is still in the store.
C24_Witness ==
    /\ event.op = "renderFrame"
    /\ ~client[event.client].isHost
    /\ \E id \in DOMAIN client[event.client].otherProjectiles :
          /\ ~client[event.client].otherProjectiles[id].isActive
          /\ id \in DOMAIN store.projectiles
          /\ store.projectiles[id].ownerUUID # event.client

====
